---- MODULE Spec2Model ----
(***************************************************************************)
(* Northwind agent: the schema and seed loader (NorthwindDatabase) and the *)
(* query function layer (DatabasePlugin, AnalyticsPlugin) of src/main.py,  *)
(* over one SQLite store.                                                  *)
(* The web front end (src/web_interface.py) and the configuration          *)
(* (src/config.py) are the specification WebSpec.                          *)
(*                                                                         *)
(* Representation.  A table is the sequence of its rows in rowid order; a  *)
(* row is a record from column name to value.  REAL columns are held as    *)
(* integers: a unit price in cents (18.0 is 1800) and a discount in        *)
(* percent (0.15 is 15), so a line's revenue                               *)
(* UnitPrice * Quantity * (1 - Discount) is held in units of 1/10000.      *)
(* A text (the str every query function returns) is a sequence of tokens;  *)
(* a JSON string is the three tokens quote, content, quote.                *)
(***************************************************************************)
EXTENDS Integers, Sequences, FiniteSets, TLC

(* ---------------- bounds of the model ---------------- *)

\* setup_database is invoked at most MaxLoads times in a behaviour
MaxLoads == 3

\* get_top_products is called with limit in -1 .. MaxLimit
MaxLimit == 11

\* the web front end answers at most MaxRequests requests in a behaviour
MaxRequests == 4

(* ---------------- the schema: tables = {...} in setup_database ---------------- *)

\* the keys of the dict `tables`, in its insertion order
TableOrder ==
  << "Categories", "Suppliers", "Products", "Customers", "Employees", "Shippers",
     "Orders", "OrderDetails", "Region", "Territories", "EmployeeTerritories" >>

Range(s) == { s[i] : i \in 1..Len(s) }

TableNames == Range(TableOrder)

Col(n, ty, nn) == [name |-> n, type |-> ty, notnull |-> nn]

\* the column definitions of each CREATE TABLE, in declaration order
Columns(t) ==
  CASE t = "Categories" ->
         << Col("CategoryID", "INTEGER", FALSE), Col("CategoryName", "TEXT", TRUE),
            Col("Description", "TEXT", FALSE) >>
    [] t = "Suppliers" ->
         << Col("SupplierID", "INTEGER", FALSE), Col("CompanyName", "TEXT", TRUE),
            Col("ContactName", "TEXT", FALSE), Col("Country", "TEXT", FALSE) >>
    [] t = "Products" ->
         << Col("ProductID", "INTEGER", FALSE), Col("ProductName", "TEXT", TRUE),
            Col("CategoryID", "INTEGER", FALSE), Col("SupplierID", "INTEGER", FALSE),
            Col("UnitPrice", "REAL", FALSE), Col("UnitsInStock", "INTEGER", FALSE) >>
    [] t = "Customers" ->
         << Col("CustomerID", "TEXT", FALSE), Col("CompanyName", "TEXT", TRUE),
            Col("ContactName", "TEXT", FALSE), Col("Country", "TEXT", FALSE),
            Col("City", "TEXT", FALSE) >>
    [] t = "Employees" ->
         << Col("EmployeeID", "INTEGER", FALSE), Col("FirstName", "TEXT", TRUE),
            Col("LastName", "TEXT", TRUE), Col("Title", "TEXT", FALSE),
            Col("HireDate", "DATE", FALSE), Col("Country", "TEXT", FALSE) >>
    [] t = "Shippers" ->
         << Col("ShipperID", "INTEGER", FALSE), Col("CompanyName", "TEXT", TRUE),
            Col("Phone", "TEXT", FALSE) >>
    [] t = "Orders" ->
         << Col("OrderID", "INTEGER", FALSE), Col("CustomerID", "TEXT", FALSE),
            Col("EmployeeID", "INTEGER", FALSE), Col("OrderDate", "DATE", FALSE),
            Col("ShipperID", "INTEGER", FALSE), Col("ShipCountry", "TEXT", FALSE) >>
    [] t = "OrderDetails" ->
         << Col("OrderID", "INTEGER", FALSE), Col("ProductID", "INTEGER", FALSE),
            Col("UnitPrice", "REAL", FALSE), Col("Quantity", "INTEGER", FALSE),
            Col("Discount", "REAL", FALSE) >>
    [] t = "Region" ->
         << Col("RegionID", "INTEGER", FALSE), Col("RegionDescription", "TEXT", TRUE) >>
    [] t = "Territories" ->
         << Col("TerritoryID", "TEXT", FALSE), Col("TerritoryDescription", "TEXT", TRUE),
            Col("RegionID", "INTEGER", FALSE) >>
    [] t = "EmployeeTerritories" ->
         << Col("EmployeeID", "INTEGER", FALSE), Col("TerritoryID", "TEXT", FALSE) >>

\* the PRIMARY KEY columns of each table
PrimaryKey(t) ==
  CASE t = "Categories" -> {"CategoryID"}
    [] t = "Suppliers" -> {"SupplierID"}
    [] t = "Products" -> {"ProductID"}
    [] t = "Customers" -> {"CustomerID"}
    [] t = "Employees" -> {"EmployeeID"}
    [] t = "Shippers" -> {"ShipperID"}
    [] t = "Orders" -> {"OrderID"}
    [] t = "OrderDetails" -> {"OrderID", "ProductID"}
    [] t = "Region" -> {"RegionID"}
    [] t = "Territories" -> {"TerritoryID"}
    [] t = "EmployeeTerritories" -> {"EmployeeID", "TerritoryID"}

FK(t, c, rt, rc) == [table |-> t, column |-> c, refTable |-> rt, refColumn |-> rc]

\* every FOREIGN KEY (c) REFERENCES rt(rc) clause of the schema
ForeignKeys ==
  { FK("Products", "CategoryID", "Categories", "CategoryID"),
    FK("Products", "SupplierID", "Suppliers", "SupplierID"),
    FK("Orders", "CustomerID", "Customers", "CustomerID"),
    FK("Orders", "EmployeeID", "Employees", "EmployeeID"),
    FK("Orders", "ShipperID", "Shippers", "ShipperID"),
    FK("OrderDetails", "OrderID", "Orders", "OrderID"),
    FK("OrderDetails", "ProductID", "Products", "ProductID"),
    FK("Territories", "RegionID", "Region", "RegionID"),
    FK("EmployeeTerritories", "EmployeeID", "Employees", "EmployeeID"),
    FK("EmployeeTerritories", "TerritoryID", "Territories", "TerritoryID") }

(* ---------------- the seed data: the lists of insert_sample_data ---------------- *)

categories ==
  << <<1, "Beverages", "Soft drinks, coffees, teas, beers, and ales">>,
     <<2, "Condiments", "Sweet and savory sauces, relishes, spreads, and seasonings">>,
     <<3, "Dairy Products", "Cheeses">>,
     <<4, "Grains/Cereals", "Breads, crackers, pasta, and cereal">>,
     <<5, "Seafood", "Seaweed and fish">> >>

suppliers ==
  << <<1, "Exotic Liquids", "Charlotte Cooper", "UK">>,
     <<2, "New Orleans Cajun Delights", "Shelley Burke", "USA">>,
     <<3, "Tokyo Traders", "Yoshi Nagase", "Japan">>,
     <<4, "Nord-Ost-Fisch", "Sven Petersen", "Germany">>,
     <<5, "Formaggi Fortini", "Elio Rossi", "Italy">> >>

\* UnitPrice in cents; the name of product 9 is written without its non-ASCII letter
products ==
  << <<1, "Chai", 1, 1, 1800, 39>>,
     <<2, "Chang", 1, 1, 1900, 17>>,
     <<3, "Aniseed Syrup", 2, 1, 1000, 13>>,
     <<4, "Chef Anton Cajun Seasoning", 2, 2, 2200, 53>>,
     <<5, "Gumbo Mix", 2, 2, 2135, 0>>,
     <<6, "Mozzarella di Giovanni", 3, 5, 3480, 14>>,
     <<7, "Gorgonzola Telino", 3, 5, 1250, 0>>,
     <<8, "Mascarpone Fabioli", 3, 5, 3200, 9>>,
     <<9, "Rogede sild", 5, 4, 965, 5>>,
     <<10, "Spegesild", 5, 4, 1200, 95>> >>

customers ==
  << <<"ALFKI", "Alfreds Futterkiste", "Maria Anders", "Germany", "Berlin">>,
     <<"ANATR", "Ana Trujillo Emparedados", "Ana Trujillo", "Mexico", "Mexico D.F.">>,
     <<"BERGS", "Berglunds snabbkop", "Christina Berglund", "Sweden", "Lulea">>,
     <<"BLAUS", "Blauer See Delikatessen", "Hanna Moos", "Germany", "Mannheim">>,
     <<"BOLID", "Bolido Comidas", "Martin Sommer", "Spain", "Madrid">> >>

employees ==
  << <<1, "Nancy", "Davolio", "Sales Representative", "1992-05-01", "USA">>,
     <<2, "Andrew", "Fuller", "Vice President, Sales", "1992-08-14", "USA">>,
     <<3, "Janet", "Leverling", "Sales Representative", "1992-04-01", "USA">>,
     <<4, "Margaret", "Peacock", "Sales Representative", "1993-05-03", "USA">>,
     <<5, "Steven", "Buchanan", "Sales Manager", "1993-10-17", "UK">> >>

shippers ==
  << <<1, "Speedy Express", "(503) 555-9831">>,
     <<2, "United Package", "(503) 555-3199">>,
     <<3, "Federal Shipping", "(503) 555-9931">> >>

orders ==
  << <<10248, "ALFKI", 5, "1996-07-04", 3, "Germany">>,
     <<10249, "BERGS", 6, "1996-07-05", 1, "Sweden">>,
     <<10250, "BLAUS", 4, "1996-07-08", 2, "Germany">> >>

\* UnitPrice in cents, Discount in percent
order_details ==
  << <<10248, 1, 1800, 12, 0>>,
     <<10248, 2, 1900, 10, 0>>,
     <<10249, 3, 1000, 5, 0>>,
     <<10250, 4, 2200, 15, 15>> >>

\* the executemany calls of insert_sample_data, in order: << table, rows >>
SeedInserts ==
  << <<"Categories", categories>>, <<"Suppliers", suppliers>>, <<"Products", products>>,
     <<"Customers", customers>>, <<"Employees", employees>>, <<"Shippers", shippers>>,
     <<"Orders", orders>>, <<"OrderDetails", order_details>> >>

(* ---------------- the store primitives the loader uses ---------------- *)

\* VALUES (?, ?, ...): the i-th value goes to the i-th declared column
MkRow(t, vals) ==
  LET cols == Columns(t)
  IN [ c \in { cols[i].name : i \in 1..Len(cols) } |->
         vals[CHOOSE i \in 1..Len(cols) : cols[i].name = c] ]

SameKey(t, r1, r2) == \A c \in PrimaryKey(t) : r1[c] = r2[c]

\* the outcome of a statement that writes: the table's rows and the exception
\* class raised ("" when none)
Written(rows, exc) == [rows |-> rows, exc |-> exc]

\* a plain INSERT: a row whose primary key is already present raises IntegrityError
InsertPlain(t, rows, r) ==
  IF \E i \in 1..Len(rows) : SameKey(t, rows[i], r)
  THEN Written(rows, "IntegrityError")
  ELSE Written(Append(rows, r), "")

\* INSERT OR IGNORE: a row whose primary key is already present is skipped
InsertOrIgnore(t, rows, r) ==
  IF \E i \in 1..Len(rows) : SameKey(t, rows[i], r)
  THEN Written(rows, "")
  ELSE Written(Append(rows, r), "")

\* cursor.executemany('INSERT OR IGNORE INTO t VALUES (...)', vals): the rows
\* are inserted in order, and the first exception ends the call
RECURSIVE ExecuteMany(_, _, _)
ExecuteMany(t, rows, vals) ==
  IF vals = << >> THEN Written(rows, "")
  ELSE LET w == InsertOrIgnore(t, rows, MkRow(t, Head(vals)))
       IN IF w.exc # "" THEN w ELSE ExecuteMany(t, w.rows, Tail(vals))

\* CREATE TABLE IF NOT EXISTS, for every table of the dict in order: a missing
\* table gets a new row at the end of sqlite_master
RECURSIVE CreateTables(_, _)
CreateTables(m, names) ==
  IF names = << >> THEN m
  ELSE CreateTables(IF Head(names) \in Range(m) THEN m ELSE Append(m, Head(names)),
                    Tail(names))

\* insert_sample_data: one executemany per seeded table, the first exception
\* ends it
RECURSIVE InsertSampleData(_, _)
InsertSampleData(d, ins) ==
  IF ins = << >> THEN [db |-> d, exc |-> ""]
  ELSE LET t == Head(ins)[1]
           w == ExecuteMany(t, d[t], Head(ins)[2])
       IN IF w.exc # "" THEN [db |-> d, exc |-> w.exc]
          ELSE InsertSampleData([d EXCEPT ![t] = w.rows], Tail(ins))

(* ---------------- values, data frames and texts ---------------- *)

\* a cell of a result set: SQL NULL, an integer (or scaled real), or a text
Null == [t |-> "null", i |-> 0, s |-> ""]
IntV(n) == [t |-> "int", i |-> n, s |-> ""]
Str(x) == [t |-> "str", i |-> 0, s |-> x]
Bool(b) == [t |-> "bool", i |-> IF b THEN 1 ELSE 0, s |-> ""]

\* the data frame pd.read_sql_query builds: column names and rows of cells
Frame(cols, rows) == [cols |-> cols, rows |-> rows]
NoFrame == Frame(<< >>, << >>)

Quote == "\""

\* the text of one cell in JSON
CellJson(v) ==
  CASE v.t = "null" -> << "null" >>
    [] v.t = "int" -> << ToString(v.i) >>
    [] v.t = "str" -> << Quote, v.s, Quote >>
    [] v.t = "bool" -> << IF v.i = 1 THEN "true" ELSE "false" >>

RECURSIVE ObjectJson(_, _, _)
ObjectJson(cols, row, i) ==
  IF i > Len(cols) THEN << >>
  ELSE << Quote, cols[i], Quote, ":" >> \o CellJson(row[i])
       \o (IF i < Len(cols) THEN << "," >> ELSE << >>)
       \o ObjectJson(cols, row, i + 1)

RECURSIVE RecordsJson(_, _, _)
RecordsJson(cols, rows, i) ==
  IF i > Len(rows) THEN << >>
  ELSE << "{" >> \o ObjectJson(cols, rows[i], 1) \o << "}" >>
       \o (IF i < Len(rows) THEN << "," >> ELSE << >>)
       \o RecordsJson(cols, rows, i + 1)

\* df.to_json(orient='records', indent=2): a list of one object per row
ToJson(f) == << "[" >> \o RecordsJson(f.cols, f.rows, 1) \o << "]" >>

\* to_json raises ValueError when two columns of the frame share a name
UniqueColumns(f) == \A i, j \in 1..Len(f.cols) : f.cols[i] = f.cols[j] => i = j

RECURSIVE StringsJson(_, _)
StringsJson(names, i) ==
  IF i > Len(names) THEN << >>
  ELSE << Quote, names[i], Quote >>
       \o (IF i < Len(names) THEN << "," >> ELSE << >>)
       \o StringsJson(names, i + 1)

\* json.dumps(table_list, indent=2): a list of strings
DumpsList(names) == << "[" >> \o StringsJson(names, 1) \o << "]" >>

\* the marker every error text starts with
Marker == "Error"

\* a text without the marker: what a function that forgot its prefix would return
BareError(what, msg) == << what, msg >>

\* f"Error <what>: {str(e)}"
ErrorText(what, msg) == << Marker, what, msg >>

NoText == << >>

\* "Error" in text, the test the callers and the test suite apply
Contains(text, tok) == \E i \in 1..Len(text) : text[i] = tok

\* text.startswith("Error")
BeginsWith(text, tok) == Len(text) >= 1 /\ text[1] = tok

\* len(json.loads(text)) of a list of objects
JsonLen(text) == Cardinality({ i \in 1..Len(text) : text[i] = "{" })

\* json.loads(text) of a list of strings: the k-th string is the token 4k - 1
JsonStrings(text) == [ k \in 1..((Len(text) - 1) \div 4) |-> text[4 * k - 1] ]

(* ---------------- exceptions ---------------- *)

\* the exception classes the statements of the query layer raise, and those of
\* the chat service, the event loop and the request body in the web front end
ExceptionClasses ==
  {"DatabaseError", "OperationalError", "TypeError", "ValueError",
   "ServiceResponseException", "TimeoutError", "OSError", "AttributeError"}

\* a handler that traps the store's errors only
ExceptStoreErrors(cls) == cls \in {"DatabaseError", "OperationalError"}

\* `except Exception as e`: every class above is caught
ExceptException(cls) == cls \in ExceptionClasses

(* ---------------- the statements run through execute_query ---------------- *)

Stmt(kind, table, col, val) == [kind |-> kind, table |-> table, col |-> col, val |-> val]
NoStmt == Stmt("", "", "", "")

\* the tables the caller-supplied statements name; the last one is in no store
QueryTables == {"Categories", "OrderDetails", "Region", "NoSuchTable"}

\* the caller-supplied query texts, by shape:
\*   count    SELECT COUNT(*) as count FROM <table>
\*   literal  SELECT '<val>' AS <col>
\*   twocols  SELECT 1 AS a, 2 AS a
\*   invalid  INVALID SQL QUERY
\*   drop     DROP TABLE <table>
\*   delete   DELETE FROM <table>
Queries ==
  { Stmt("count", t, "count", "") : t \in QueryTables }
    \cup { Stmt("drop", t, "", "") : t \in QueryTables }
    \cup { Stmt("delete", t, "", "") : t \in QueryTables }
    \cup { Stmt("literal", "", "x", "ok"), Stmt("literal", "", "x", "Error"),
           Stmt("literal", "", "Error", "ok") }
    \cup { Stmt("twocols", "", "a", ""), Stmt("invalid", "", "", "") }

\* the outcome of pd.read_sql_query: the exception class raised ("" when none)
\* and its message, the frame read, and the store as the statement leaves it
Read(exc, msg, frame, m, d) ==
  [exc |-> exc, msg |-> msg, frame |-> frame, master |-> m, db |-> d]

RemoveName(m, t) == SelectSeq(m, LAMBDA x : x # t)

\* pd.read_sql_query(query, conn): cursor.execute(query), then the column names
\* from cursor.description, then fetchall.  A statement the store rejects raises
\* pandas' DatabaseError.  A statement that returns no result set has executed
\* when cursor.description, which is None, is iterated and TypeError is raised:
\* DROP TABLE runs outside any transaction and stays; DELETE runs in the
\* transaction sqlite3 opens for it, which is never committed.
ReadSqlQuery(q, m, d) ==
  CASE q.kind = "count" ->
         IF q.table \in Range(m)
         THEN Read("", "", Frame(<< q.col >>, << << IntV(Len(d[q.table])) >> >>), m, d)
         ELSE Read("DatabaseError", "no such table", NoFrame, m, d)
    [] q.kind = "literal" ->
         Read("", "", Frame(<< q.col >>, << << Str(q.val) >> >>), m, d)
    [] q.kind = "twocols" ->
         Read("", "", Frame(<< q.col, q.col >>, << << IntV(1), IntV(2) >> >>), m, d)
    [] q.kind = "invalid" ->
         Read("DatabaseError", "syntax error", NoFrame, m, d)
    [] q.kind = "drop" ->
         IF q.table \in Range(m)
         THEN Read("TypeError", "'NoneType' object is not iterable", NoFrame,
                   RemoveName(m, q.table), [d EXCEPT ![q.table] = << >>])
         ELSE Read("DatabaseError", "no such table", NoFrame, m, d)
    [] q.kind = "delete" ->
         IF q.table \in Range(m)
         THEN Read("TypeError", "'NoneType' object is not iterable", NoFrame, m, d)
         ELSE Read("DatabaseError", "no such table", NoFrame, m, d)

\* what a query function hands back: the text it returns, or the exception
\* that leaves it
Returned(text) == [text |-> text, raised |-> FALSE]
Raised == [text |-> NoText, raised |-> TRUE]

\* try: ... except Exception as e: return f"Error <what>: {str(e)}"
Trap(what, cls, msg) ==
  IF ExceptException(cls) THEN Returned(ErrorText(what, msg)) ELSE Raised

(* ---------------- configuration, agent and HTTP values ---------------- *)

\* the values of OPENAI_API_KEY in the environment: absent or empty, or a key
ApiKeys == {"", "sk-test"}

\* config = Config(): the dataclass takes os.getenv("OPENAI_API_KEY", "") as
\* the default of openai_api_key and runs no validation on construction
Config(k) == [built |-> TRUE, openai_api_key |-> k]
NoConfig == [built |-> FALSE, openai_api_key |-> ""]

\* Config.validate: the exception it raises ("" when it returns True)
Validate(cfg) == IF cfg.openai_api_key = "" THEN "ValueError" ELSE ""

\* NorthwindAIAgent(openai_api_key): the agent holds the key in its chat service
Agent(k) == [built |-> TRUE, api_key |-> k]
NoAgent == [built |-> FALSE, api_key |-> ""]

\* OpenAIChatCompletion(api_key = k): whether the constructor returns.  The
\* connector is a library outside the repository; for an empty key some of its
\* versions raise and some return, for a key all return.
ServiceAccepts(k) == IF k = "" THEN {TRUE, FALSE} ELSE {TRUE}

\* a JSON body of POST /query: an object (with or without "query"), an array
\* or null
Body(json, has, q) == [json |-> json, has |-> has, query |-> q]
NoBody == Body("none", FALSE, "")

UserQueries == {"top products", "sales by category"}

Bodies ==
  { Body("object", TRUE, q) : q \in UserQueries \union {""} }
    \union { Body("object", FALSE, ""), Body("array", FALSE, ""), Body("null", FALSE, "") }

\* what kernel.invoke_prompt does: return a completion or raise
Completion(exc, text) == [exc |-> exc, text |-> text]

Completions ==
  { Completion("", "The top product is Chef Anton Cajun Seasoning"),
    Completion("", "Beverages have the highest revenue"),
    Completion("ServiceResponseException", "service failed to complete the prompt"),
    Completion("TimeoutError", "request timed out") }

\* what asyncio.new_event_loop() does: return a loop ("") or raise
LoopOutcomes == {"", "OSError"}

\* an HTTP answer: status, kind of body, and for a JSON object its one key and
\* the text under it
Response(status, kind, key, text) ==
  [status |-> status, kind |-> kind, key |-> key, text |-> text]
NoResponse == Response(0, "none", "", NoText)

\* return jsonify({key: text}), status
Jsonify(key, text, status) == Response(status, "json", key, text)

\* the answer of the framework when an exception leaves a view or a
\* before_first_request function: status 500 with its HTML error page
ServerError == Response(500, "html", "", NoText)

(* ---------------- the state ---------------- *)

VARIABLES
  db,          \* the rows of each table of the store (none when the table is absent)
  master,      \* sqlite_master: the names of the tables, in rowid order
  loads,       \* how many times setup_database has been invoked
  afterFirst,  \* the rows of each table when the first setup_database returned
  call,        \* the operation invoked last and its arguments
  ret,         \* the text it returned
  raised,      \* whether an exception left it instead
  failed,      \* whether an exception was raised inside it
  df,          \* the data frame it read
  conn,        \* its connection when it returned: "closed" by conn.close(), or "open"
  config,      \* config.config: the Config object of the process, once imported
  agent,       \* web_interface.agent: the NorthwindAIAgent, once initialised
  request,     \* the body of the request answered last
  response,    \* the answer to it
  served       \* how many requests have been answered

storeVars == << db, master, loads, afterFirst, call, ret, raised, failed, df, conn >>
webVars == << config, agent, request, response, served >>
vars == << db, master, loads, afterFirst, call, ret, raised, failed, df, conn,
           config, agent, request, response, served >>

Call(op, stmt, name, limit) == [op |-> op, stmt |-> stmt, name |-> name, limit |-> limit]

Init ==
  /\ db = [t \in TableNames |-> << >>]
  /\ master = << >>
  /\ loads = 0
  /\ afterFirst = [t \in TableNames |-> << >>]
  /\ call = Call("none", NoStmt, "", 0)
  /\ ret = NoText
  /\ raised = FALSE
  /\ failed = FALSE
  /\ df = NoFrame
  /\ conn = "none"
  /\ config = NoConfig
  /\ agent = NoAgent
  /\ request = NoBody
  /\ response = NoResponse
  /\ served = 0

(* ---------------- NorthwindDatabase ---------------- *)

\* In the actions, \E r \in { e } : ... names the value of e as r.

\* setup_database: connect, create the missing tables, insert the sample data,
\* commit, close.  The CREATE TABLE statements take effect as they run; the
\* inserts are kept by conn.commit(), which an exception skips.
SetupDatabase ==
  /\ loads < MaxLoads
  /\ \E r \in { InsertSampleData(db, SeedInserts) } :
        /\ master' = CreateTables(master, TableOrder)
        /\ db' = IF r.exc = "" THEN r.db ELSE db
        /\ raised' = (r.exc # "")
        /\ failed' = (r.exc # "")
        /\ conn' = IF r.exc = "" THEN "closed" ELSE "open"
        /\ afterFirst' = IF loads = 0 /\ r.exc = "" THEN r.db ELSE afterFirst
  /\ loads' = loads + 1
  /\ call' = Call("setup_database", NoStmt, "", 0)
  /\ ret' = NoText
  /\ df' = NoFrame

(* ---------------- DatabasePlugin ---------------- *)

\* execute_query(query)
ExecuteQuery(q) ==
  \E r \in { ReadSqlQuery(q, master, db) } :
  LET out == IF r.exc # "" THEN Trap("executing query:", r.exc, r.msg)
             ELSE IF ~UniqueColumns(r.frame)
                  THEN Trap("executing query:", "ValueError", "DataFrame columns must be unique")
                  ELSE Returned(ToJson(r.frame))
  IN /\ master' = r.master
     /\ db' = r.db
     /\ df' = r.frame
     /\ conn' = IF r.exc # "" THEN "open" ELSE "closed"
     /\ failed' = (r.exc # "" \/ ~UniqueColumns(r.frame))
     /\ ret' = out.text
     /\ raised' = out.raised
     /\ call' = Call("execute_query", q, "", 0)
     /\ UNCHANGED << loads, afterFirst >>

\* the names get_table_schema is called with; the last two are not single
\* name tokens of the SQL grammar (two words, a reserved word)
SchemaNames ==
  {"Products", "Categories", "Region", "NonExistentTable", "Order Details", "Order"}

\* whether PRAGMA table_info(<name>) parses, the name being pasted into the text
ParsesAsName(n) == n \notin {"Order Details", "Order"}

\* the outcome of cursor.execute(f"PRAGMA table_info({table_name})") and fetchall
Info(exc, msg, cols) == [exc |-> exc, msg |-> msg, columns |-> cols]

\* an introspection that rejects a name it does not know
PragmaTableInfoStrict(n, m) ==
  IF ~ParsesAsName(n) THEN Info("OperationalError", "syntax error", << >>)
  ELSE IF n \in Range(m) THEN Info("", "", Columns(n))
  ELSE Info("OperationalError", "no such table", << >>)

\* PRAGMA table_info: one row per column of the table, none for a name that
\* is no table; a text that does not parse raises sqlite3.OperationalError
PragmaTableInfo(n, m) ==
  IF ~ParsesAsName(n) THEN Info("OperationalError", "syntax error", << >>)
  ELSE IF n \in Range(m) THEN Info("", "", Columns(n))
  ELSE Info("", "", << >>)

\* schema_info: column, type, nullable = not col[3], default = col[4]
SchemaInfo(cols) ==
  Frame(<< "column", "type", "nullable", "default" >>,
        [ i \in 1..Len(cols) |->
            << Str(cols[i].name), Str(cols[i].type), Bool(~cols[i].notnull), Null >> ])

\* get_table_schema(table_name); json.dumps(schema_info, indent=2) is the same
\* list of objects to_json writes
GetTableSchema(n) ==
  \E r \in { PragmaTableInfo(n, master) } :
  LET out == IF r.exc # "" THEN Trap("getting schema:", r.exc, r.msg)
             ELSE Returned(ToJson(SchemaInfo(r.columns)))
  IN /\ df' = IF r.exc # "" THEN NoFrame ELSE SchemaInfo(r.columns)
     /\ conn' = IF r.exc # "" THEN "open" ELSE "closed"
     /\ failed' = (r.exc # "")
     /\ ret' = out.text
     /\ raised' = out.raised
     /\ call' = Call("get_table_schema", NoStmt, n, 0)
     /\ UNCHANGED << db, master, loads, afterFirst >>

\* list_tables(): SELECT name FROM sqlite_master WHERE type='table'
ListTables ==
  /\ df' = Frame(<< "name" >>, [ i \in 1..Len(master) |-> << Str(master[i]) >> ])
  /\ conn' = "closed"
  /\ failed' = FALSE
  /\ ret' = DumpsList(master)
  /\ raised' = FALSE
  /\ call' = Call("list_tables", NoStmt, "", 0)
  /\ UNCHANGED << db, master, loads, afterFirst >>

(* ---------------- AnalyticsPlugin ---------------- *)

\* the product and category names of the store in the order of SQLite's BINARY
\* collation (memcmp), which GROUP BY sorts its keys with
NameOrder ==
  << "Aniseed Syrup", "Beverages", "Chai", "Chang", "Chef Anton Cajun Seasoning",
     "Condiments", "Dairy Products", "Gorgonzola Telino", "Grains/Cereals", "Gumbo Mix",
     "Mascarpone Fabioli", "Mozzarella di Giovanni", "Rogede sild", "Seafood",
     "Spegesild" >>

NameRank(x) == CHOOSE i \in 1..Len(NameOrder) : NameOrder[i] = x

\* comparison of two GROUP BY keys, column by column
RECURSIVE KeyLess(_, _)
KeyLess(k1, k2) ==
  IF k1 = << >> \/ k2 = << >> THEN k1 = << >> /\ k2 # << >>
  ELSE \/ NameRank(Head(k1)) < NameRank(Head(k2))
       \/ Head(k1) = Head(k2) /\ KeyLess(Tail(k1), Tail(k2))

\* the groups of a GROUP BY, in ascending order of their keys
RECURSIVE SortedKeys(_)
SortedKeys(S) ==
  IF S = {} THEN << >>
  ELSE LET k == CHOOSE x \in S : \A y \in S \ {x} : KeyLess(x, y)
       IN << k >> \o SortedKeys(S \ {k})

\* od.UnitPrice * od.Quantity * (1 - od.Discount), in units of 1/10000
LineRevenue(od) == od.UnitPrice * od.Quantity * (100 - od.Discount)

\* the sum of f[x] over the joined rows x of S
RECURSIVE SumOver(_, _)
SumOver(S, f) ==
  IF S = {} THEN 0
  ELSE LET x == CHOOSE y \in S : TRUE IN f[x] + SumOver(S \ {x}, f)

\* an aggregate that counts an empty group as zero
ZeroSum(S, f) == IntV(SumOver(S, f))

\* SUM(expr) over the joined rows of a group: NULL when no row has a value
SqlSum(S, f) == IF S = {} THEN Null ELSE IntV(SumOver(S, f))

\* the comparison of ORDER BY <column c> ASC
BeforeAsc(a, b, c) == b[c].t = "int" /\ (a[c].t = "null" \/ a[c].i < b[c].i)

\* whether row a sorts strictly before row b under ORDER BY <column c> DESC:
\* NULL is the smallest value
Before(a, b, c) == a[c].t = "int" /\ (b[c].t = "null" \/ a[c].i > b[c].i)

\* the sorter puts a row behind every row that does not sort after it, so rows
\* with equal values keep the order the grouping emitted them in
SortInsert(sorted, r, c) ==
  LET later == { i \in 1..Len(sorted) : Before(r, sorted[i], c) }
      at == IF later = {} THEN Len(sorted) + 1
            ELSE CHOOSE i \in later : \A j \in later : i <= j
  IN SubSeq(sorted, 1, at - 1) \o << r >> \o SubSeq(sorted, at, Len(sorted))

\* ORDER BY <column c> DESC
RECURSIVE OrderByDesc(_, _, _)
OrderByDesc(rows, c, acc) ==
  IF rows = << >> THEN acc
  ELSE OrderByDesc(Tail(rows), c, SortInsert(acc, Head(rows), c))

\* a LIMIT that returns one row more than asked
LimitOffByOne(rows, n) ==
  IF n < 0 \/ n + 1 >= Len(rows) THEN rows ELSE SubSeq(rows, 1, n + 1)

\* LIMIT n: the first n rows; a negative n is no limit
Limit(rows, n) ==
  IF n < 0 \/ n >= Len(rows) THEN rows ELSE SubSeq(rows, 1, n)

\* FROM Products p JOIN Categories c ON p.CategoryID = c.CategoryID: pairs of row numbers
ProductCategory(d) ==
  { pc \in (1..Len(d["Products"])) \X (1..Len(d["Categories"])) :
      d["Products"][pc[1]].CategoryID = d["Categories"][pc[2]].CategoryID }

\* ... LEFT JOIN OrderDetails od ON p.ProductID = od.ProductID: the order lines
\* joined to the pairs of one group, as << product, category, line >> row numbers
GroupLines(d, pairs) ==
  UNION { { << pc[1], pc[2], l >> :
              l \in { n \in 1..Len(d["OrderDetails"]) :
                        d["OrderDetails"][n].ProductID = d["Products"][pc[1]].ProductID } } :
          pc \in pairs }

TopProductsColumns == << "ProductName", "CategoryName", "TotalQuantitySold", "TotalRevenue" >>

\* the statement of get_top_products up to its ORDER BY: GROUP BY p.ProductName,
\* c.CategoryName, ORDER BY TotalRevenue DESC
TopProductsOrdered(m, d) ==
  IF ~({"Products", "Categories", "OrderDetails"} \subseteq Range(m))
  THEN Read("DatabaseError", "no such table", NoFrame, m, d)
  ELSE
    LET pairs == ProductCategory(d)
        KeyOf(pc) == << d["Products"][pc[1]].ProductName, d["Categories"][pc[2]].CategoryName >>
        keys == SortedKeys({ KeyOf(pc) : pc \in pairs })
        Group(k) ==
          LET lines == GroupLines(d, { pc \in pairs : KeyOf(pc) = k })
              qty == [ x \in lines |-> d["OrderDetails"][x[3]].Quantity ]
              rev == [ x \in lines |-> LineRevenue(d["OrderDetails"][x[3]]) ]
          IN << Str(k[1]), Str(k[2]), SqlSum(lines, qty), SqlSum(lines, rev) >>
        grouped == [ i \in 1..Len(keys) |-> Group(keys[i]) ]
    IN Read("", "", Frame(TopProductsColumns, OrderByDesc(grouped, 4, << >>)), m, d)

\* ... LIMIT {limit}, the limit being pasted into the text
TopProductsQuery(ordered, limit) ==
  IF ordered.exc # "" THEN ordered
  ELSE [ordered EXCEPT !.frame = Frame(@.cols, Limit(@.rows, limit))]

\* get_top_products(limit), for every limit of the model
GetTopProducts ==
  \E ordered \in { TopProductsOrdered(master, db) } :
    \E limit \in -1..MaxLimit :
      \E r \in { TopProductsQuery(ordered, limit) } :
       LET out == IF r.exc # "" THEN Trap("getting top products:", r.exc, r.msg)
                  ELSE Returned(ToJson(r.frame))
       IN /\ df' = r.frame
          /\ conn' = IF r.exc # "" THEN "open" ELSE "closed"
          /\ failed' = (r.exc # "")
          /\ ret' = out.text
          /\ raised' = out.raised
          /\ call' = Call("get_top_products", NoStmt, "", limit)
          /\ UNCHANGED << db, master, loads, afterFirst >>

SalesColumns ==
  << "CategoryName", "TotalOrders", "TotalQuantity", "TotalRevenue", "AvgOrderValue" >>

\* FROM OrderDetails od JOIN Products p ON od.ProductID = p.ProductID
\* JOIN Categories c ON p.CategoryID = c.CategoryID: << product, category, line >>
LineProductCategory(d) == GroupLines(d, ProductCategory(d))

\* the statement of analyze_sales_by_category: GROUP BY c.CategoryName,
\* ORDER BY TotalRevenue DESC
SalesByCategoryQuery(m, d) ==
  IF ~({"Products", "Categories", "OrderDetails"} \subseteq Range(m))
  THEN Read("DatabaseError", "no such table", NoFrame, m, d)
  ELSE
    LET joined == LineProductCategory(d)
        KeyOf(x) == << d["Categories"][x[2]].CategoryName >>
        keys == SortedKeys({ KeyOf(x) : x \in joined })
        Group(k) ==
          LET lines == { x \in joined : KeyOf(x) = k }
              qty == [ x \in lines |-> d["OrderDetails"][x[3]].Quantity ]
              rev == [ x \in lines |-> LineRevenue(d["OrderDetails"][x[3]]) ]
          IN << Str(k[1]), IntV(Cardinality(lines)), SqlSum(lines, qty), SqlSum(lines, rev),
                IntV(SumOver(lines, rev) \div Cardinality(lines)) >>
        grouped == [ i \in 1..Len(keys) |-> Group(keys[i]) ]
    IN Read("", "", Frame(SalesColumns, OrderByDesc(grouped, 4, << >>)), m, d)

\* analyze_sales_by_category()
AnalyzeSalesByCategory ==
  \E r \in { SalesByCategoryQuery(master, db) } :
  LET out == IF r.exc # "" THEN Trap("analyzing sales:", r.exc, r.msg)
             ELSE Returned(ToJson(r.frame))
  IN /\ df' = r.frame
     /\ conn' = IF r.exc # "" THEN "open" ELSE "closed"
     /\ failed' = (r.exc # "")
     /\ ret' = out.text
     /\ raised' = out.raised
     /\ call' = Call("analyze_sales_by_category", NoStmt, "", 0)
     /\ UNCHANGED << db, master, loads, afterFirst >>

(* ---------------- config.py and web_interface.py ---------------- *)

\* import config: config = Config() with the key of the environment;
\* validate() is called nowhere
ImportConfig ==
  /\ ~config.built
  /\ \E k \in ApiKeys : config' = Config(k)
  /\ UNCHANGED << storeVars, agent, request, response, served >>

\* initialize_agent, run by the framework before the first request is
\* dispatched: agent = NorthwindAIAgent(config.openai_api_key), whose
\* constructor builds the chat service and then the store.  When the chat
\* service raises, the request is answered with the server error and the
\* function runs again before the next request.
InitializeAgent ==
  /\ config.built
  /\ ~agent.built
  /\ served < MaxRequests
  /\ \E accepted \in ServiceAccepts(config.openai_api_key) :
       IF accepted
       THEN /\ SetupDatabase
            /\ agent' = Agent(config.openai_api_key)
            /\ UNCHANGED << config, request, response, served >>
       ELSE /\ response' = ServerError
            /\ served' = served + 1
            /\ call' = Call("initialize_agent", NoStmt, "", 0)
            /\ ret' = NoText
            /\ raised' = TRUE
            /\ failed' = TRUE
            /\ UNCHANGED << db, master, loads, afterFirst, df, conn, config, agent, request >>

\* process_query(user_query): str(response), or the text of the exception
ProcessQuery(user_query, c) ==
  IF c.exc = "" THEN Returned(<< c.text >>)
  ELSE Trap("processing query:", c.exc, c.text)

\* what the view hands back: the answer, the text process_query returned,
\* whether an exception was raised inside, and whether one left the view
Answer(resp, text, f, r) == [response |-> resp, ret |-> text, failed |-> f, raised |-> r]

\* query(): data = request.get_json(); user_query = data.get('query', '')
\* (both outside the try); 400 without a query; in the try, a new event loop
\* runs agent.process_query(user_query); except Exception: 500
Query(body, loopExc, c) ==
  IF body.json # "object"
  THEN Answer(ServerError, NoText, TRUE, TRUE)
  ELSE
    LET user_query == IF body.has THEN body.query ELSE ""
    IN IF user_query = ""
       THEN Answer(Jsonify("error", << "Query is required" >>, 400), NoText, FALSE, FALSE)
       ELSE IF loopExc # ""
            THEN IF ExceptException(loopExc)
                 THEN Answer(Jsonify("error", << "Too many open files" >>, 500), NoText, TRUE, FALSE)
                 ELSE Answer(ServerError, NoText, TRUE, TRUE)
            ELSE LET out == ProcessQuery(user_query, c)
                 IN IF out.raised
                    THEN IF ExceptException(c.exc)
                         THEN Answer(Jsonify("error", << c.text >>, 500), NoText, TRUE, FALSE)
                         ELSE Answer(ServerError, NoText, TRUE, TRUE)
                    ELSE Answer(Jsonify("response", out.text, 200), out.text, c.exc # "", FALSE)

\* POST /query, for every body, event loop and completion of the model
PostQuery ==
  /\ agent.built
  /\ served < MaxRequests
  /\ \E body \in Bodies, loopExc \in LoopOutcomes, c \in Completions :
       \E r \in { Query(body, loopExc, c) } :
         /\ request' = body
         /\ response' = r.response
         /\ ret' = r.ret
         /\ failed' = r.failed
         /\ raised' = r.raised
         /\ call' = Call("POST /query", NoStmt, body.query, 0)
  /\ served' = served + 1
  /\ UNCHANGED << db, master, loads, afterFirst, df, conn, config, agent >>

Next ==
  \/ SetupDatabase /\ UNCHANGED webVars
  \/ \E q \in Queries : ExecuteQuery(q) /\ UNCHANGED webVars
  \/ \E n \in SchemaNames : GetTableSchema(n) /\ UNCHANGED webVars
  \/ ListTables /\ UNCHANGED webVars
  \/ GetTopProducts /\ UNCHANGED webVars
  \/ AnalyzeSalesByCategory /\ UNCHANGED webVars

Spec == Init /\ [][Next]_vars

\* the web process: the configuration is imported, the agent is initialised
\* before the first request, requests are answered
WebNext ==
  \/ ImportConfig
  \/ InitializeAgent
  \/ PostQuery

WebSpec == Init /\ [][WebNext]_vars


(* ======================= the claims ======================= *)

(* ---- C1 ---- *)

\* C1: seeding is idempotent: when setup_database returns from its second or a
\* later invocation, it has raised no error and every table holds exactly the
\* rows (hence the row count) it held when the first invocation returned.
C1_SeedingIdempotent ==
  (call.op = "setup_database" /\ loads >= 2) => (~raised /\ db = afterFirst)

C1_Witness ==
  /\ call.op = "setup_database"
  /\ loads >= 2
  /\ ~raised
  /\ db = afterFirst
  /\ Len(db["Products"]) = Len(products)

(* ---- C2 ---- *)

\* C2: execute_query always returns a text and no exception leaves it; when
\* the execution failed, the text begins with the "Error" marker.
C2_RunQueryNeverRaises ==
  call.op = "execute_query" =>
    /\ ~raised
    /\ ret # NoText
    /\ failed => BeginsWith(ret, Marker)

C2_Witness ==
  /\ call.op = "execute_query"
  /\ call.stmt.kind \in {"invalid", "drop"}
  /\ failed
  /\ ~raised
  /\ BeginsWith(ret, Marker)

(* ---- C3 ---- *)

\* C3, as stated: the text execute_query returns contains the "Error" marker
\* exactly when the execution failed.
C3_MarkerContainedIffFailed ==
  call.op = "execute_query" => (Contains(ret, Marker) <=> failed)

\* C3, amended: the text execute_query returns begins with the "Error" marker
\* exactly when an exception was raised inside the call; the text of a
\* successful query never begins with it, even when it contains it.
C3_MarkerFirstIffFailed ==
  call.op = "execute_query" => (BeginsWith(ret, Marker) <=> failed)

C3_Witness ==
  /\ call.op = "execute_query"
  /\ ~failed
  /\ Contains(ret, Marker)
  /\ ~BeginsWith(ret, Marker)

(* ---- C4 ---- *)

\* the text of an empty list
EmptyList == << "[", "]" >>

C5_UnknownTableIsError ==
  (call.op = "get_table_schema" /\ loads >= 1 /\ call.name \notin Range(master)) =>
    Contains(ret, Marker)

(* ---- C6 ---- *)

\* C6: in every state after setup_database has completed at least once, the
\* list list_tables returns contains all eleven table names.
C6_ListTablesComplete ==
  (call.op = "list_tables" /\ loads >= 1) => TableNames \subseteq Range(JsonStrings(ret))

(* ---- C7 ---- *)

\* C7: when setup_database has completed, all eleven tables exist and none of
\* them is empty.
C7_EveryTableSeeded ==
  (call.op = "setup_database" /\ ~raised) =>
    \A t \in TableNames : t \in Range(master) /\ db[t] # << >>

(* ---- C8 ---- *)

\* whether the rows of the store satisfy the foreign key fk
References(fk) ==
  \A i \in 1..Len(db[fk.table]) :
    \E j \in 1..Len(db[fk.refTable]) :
      db[fk.refTable][j][fk.refColumn] = db[fk.table][i][fk.column]

\* C8: in every state setup_database leaves the store in, every foreign-key
\* value of a row references a row that exists in the referenced table.
C8_ReferentialIntegrity ==
  (call.op = "setup_database" /\ ~raised) => \A fk \in ForeignKeys : References(fk)

(* ---- C9 ---- *)

Min(a, b) == IF a <= b THEN a ELSE b

\* the tables the statement of get_top_products reads are in the store
TopProductsTables == {"Products", "Categories", "OrderDetails"} \subseteq Range(master)

\* C9: on a store holding the tables it reads, get_top_products(limit) with
\* limit >= 0 returns exactly min(limit, number of products) rows; with a limit
\* of at least the number of products, every product is returned exactly once.
C9_TopNTruncation ==
  (call.op = "get_top_products" /\ call.limit >= 0 /\ TopProductsTables) =>
    /\ ~failed
    /\ JsonLen(ret) = Min(call.limit, Len(db["Products"]))
    /\ Len(df.rows) = JsonLen(ret)
    /\ call.limit >= Len(db["Products"]) =>
         \A p \in 1..Len(db["Products"]) :
           Cardinality({ i \in 1..Len(df.rows) :
                           df.rows[i][1] = Str(db["Products"][p].ProductName) }) = 1

C9_Witness ==
  /\ call.op = "get_top_products"
  /\ TopProductsTables
  /\ call.limit > Len(db["Products"])
  /\ Len(db["Products"]) = Len(products)
  /\ JsonLen(ret) = Len(products)

(* ---- C10 ---- *)

\* rows i < j of the frame are in descending order of total revenue, and rows
\* of equal total revenue are in the order of their product names
OrderedByRevenueThenName(rows) ==
  \A i, j \in 1..Len(rows) :
    i < j =>
      /\ ~Before(rows[j], rows[i], 4)
      /\ ~Before(rows[i], rows[j], 4) => NameRank(rows[i][1].s) < NameRank(rows[j][1].s)

\* the product named x has no order line in the store
NoOrderLines(x) ==
  \A p \in 1..Len(db["Products"]) :
    db["Products"][p].ProductName = x =>
      \A l \in 1..Len(db["OrderDetails"]) :
        db["OrderDetails"][l].ProductID # db["Products"][p].ProductID

\* every product without order lines is among the rows when the limit allows
ZeroLineProductsIncluded ==
  call.limit >= Len(db["Products"]) =>
    \A p \in 1..Len(db["Products"]) :
      \E i \in 1..Len(df.rows) : df.rows[i][1] = Str(db["Products"][p].ProductName)

\* C10, as stated: the rows of get_top_products are ordered by total revenue
\* descending, ties in name order, and a product with no order lines is
\* included with a total quantity and a total revenue of zero.
C10_TopOrderedZeroTotals ==
  (call.op = "get_top_products" /\ ~failed) =>
    /\ OrderedByRevenueThenName(df.rows)
    /\ ZeroLineProductsIncluded
    /\ \A i \in 1..Len(df.rows) :
         NoOrderLines(df.rows[i][1].s) => (df.rows[i][3] = IntV(0) /\ df.rows[i][4] = IntV(0))

\* C10, amended: the rows of get_top_products are ordered by total revenue
\* descending, ties in name order, and a product with no order lines is
\* included with a null total quantity and a null total revenue, after every
\* product that has revenue.
C10_TopOrderedNullTotals ==
  (call.op = "get_top_products" /\ ~failed) =>
    /\ OrderedByRevenueThenName(df.rows)
    /\ ZeroLineProductsIncluded
    /\ \A i \in 1..Len(df.rows) :
         NoOrderLines(df.rows[i][1].s) =>
           /\ df.rows[i][3] = Null /\ df.rows[i][4] = Null
           /\ \A j \in 1..Len(df.rows) : df.rows[j][4] # Null => j < i

C10_Witness ==
  /\ call.op = "get_top_products"
  /\ ~failed
  /\ call.limit >= Len(products)
  /\ Len(df.rows) = Len(products)
  /\ \E i, j \in 1..Len(df.rows) : i < j /\ df.rows[i][4] = Null /\ df.rows[j][4] = Null
  /\ \E i \in 1..Len(df.rows) : df.rows[i][4] # Null

(* ---- C11 ---- *)

\* the order lines joined to the category named x: the lines of the products
\* of that category
CategoryLines(x) ==
  { l \in 1..Len(db["OrderDetails"]) :
      \E p \in 1..Len(db["Products"]), c \in 1..Len(db["Categories"]) :
        /\ db["OrderDetails"][l].ProductID = db["Products"][p].ProductID
        /\ db["Products"][p].CategoryID = db["Categories"][c].CategoryID
        /\ db["Categories"][c].CategoryName = x }

\* the rows of the frame are in descending order of total revenue
OrderedByRevenue(rows) ==
  \A i, j \in 1..Len(rows) : i < j => rows[i][4].i >= rows[j][4].i

\* row r gives the line count, total quantity, total revenue and average
\* revenue per line of the category it names
CategoryTotals(r) ==
  LET lines == CategoryLines(r[1].s)
      qty == [ l \in lines |-> db["OrderDetails"][l].Quantity ]
      rev == [ l \in lines |-> LineRevenue(db["OrderDetails"][l]) ]
  IN /\ lines # {}
     /\ r[2] = IntV(Cardinality(lines))
     /\ r[3] = IntV(SumOver(lines, qty))
     /\ r[4] = IntV(SumOver(lines, rev))
     /\ r[5] = IntV(SumOver(lines, rev) \div Cardinality(lines))

\* C11, as stated: analyze_sales_by_category returns one row for each category
\* of the store, whether or not it has order lines, with the rows ordered by
\* total revenue descending.
C11_OneRowPerCategory ==
  (call.op = "analyze_sales_by_category" /\ ~failed) =>
    /\ \A c \in 1..Len(db["Categories"]) :
         Cardinality({ i \in 1..Len(df.rows) :
                         df.rows[i][1] = Str(db["Categories"][c].CategoryName) }) = 1
    /\ OrderedByRevenue(df.rows)

\* C11, amended: on a store holding the tables it reads,
\* analyze_sales_by_category returns one row for each category that has at
\* least one order line and no row for a category without order lines; a row
\* gives the category's line count, total quantity, total revenue and average
\* revenue per line, and the rows are ordered by total revenue descending.
C11_OneRowPerSoldCategory ==
  (call.op = "analyze_sales_by_category" /\ TopProductsTables) =>
    /\ ~failed
    /\ JsonLen(ret) = Len(df.rows)
    /\ \A c \in 1..Len(db["Categories"]) :
         Cardinality({ i \in 1..Len(df.rows) :
                         df.rows[i][1] = Str(db["Categories"][c].CategoryName) })
           = IF CategoryLines(db["Categories"][c].CategoryName) = {} THEN 0 ELSE 1
    /\ \A i \in 1..Len(df.rows) : CategoryTotals(df.rows[i])
    /\ OrderedByRevenue(df.rows)

C11_Witness ==
  /\ call.op = "analyze_sales_by_category"
  /\ ~failed
  /\ Len(db["Categories"]) = Len(categories)
  /\ Len(df.rows) = 2
  /\ df.rows[1][1] = Str("Beverages") /\ df.rows[1][4] = IntV(4060000)
  /\ df.rows[2][1] = Str("Condiments") /\ df.rows[2][4] = IntV(3305000)
  /\ CategoryLines("Seafood") = {}

(* ---- C12 ---- *)

\* the five operations of the query layer
QueryLayer ==
  {"execute_query", "get_table_schema", "list_tables", "get_top_products",
   "analyze_sales_by_category"}

\* C12: the query layer never modifies the store: every call of execute_query
\* (with any statement), get_table_schema, list_tables, get_top_products and
\* analyze_sales_by_category leaves the set of tables and the rows of every
\* table as they were.
C12_QueryLayerReadOnly ==
  [][call'.op \in QueryLayer => (master' = master /\ db' = db)]_vars

(* ---- C13 ---- *)

\* the request names no query: its body is an object without "query" or with
\* an empty one
QueryMissing == request.json = "object" /\ (~request.has \/ request.query = "")

\* C13: POST /query always answers with a JSON object of the documented shape:
\* {"error": text} with status 500 on any internal failure (a body that is no
\* JSON object and a failure inside the agent included), {"error": text} with
\* status 400 when the query is missing or empty, {"response": text} with
\* status 200 otherwise; no other outcome is reachable.
C13_DocumentedAnswers ==
  call.op = "POST /query" =>
    /\ response.kind = "json"
    /\ failed => (response.status = 500 /\ response.key = "error")
    /\ (~failed /\ QueryMissing) => (response.status = 400 /\ response.key = "error")
    /\ (~failed /\ ~QueryMissing) => (response.status = 200 /\ response.key = "response")

(* ---- C14 ---- *)

\* C14: a missing API key is fatal at construction time: no Config object
\* exists that validate() rejects, no agent is built with an empty key, and no
\* request is answered by a process whose key is empty.
C14_MissingKeyFatal ==
  /\ config.built => Validate(config) = ""
  /\ agent.built => agent.api_key # ""
  /\ served > 0 => config.openai_api_key # ""

(* ---- C15 ---- *)

\* C15: every invocation of the five operations of the query layer has closed
\* the connection it opened when it returns, on the failure path (the
\* statement raised and the error text is returned) as on the success path.
C15_ConnectionClosedOnReturn ==
  call.op \in QueryLayer => conn = "closed"

====
